---- MODULE Spec2Model ----
(***************************************************************************)
(* Chargeback API: the DynamoDB chargeback repository (Save, FindByID,     *)
(* FindByTransactionID, FindByMerchantID, FindByStatus, Update, Delete,    *)
(* List), the store it talks to (one table keyed by id, indexes that lag   *)
(* the table), the creation workflow that sits on top of the repository    *)
(* and the HTTP handler that answers for it.                               *)
(*                                                                         *)
(* Encoding.  The clock is a counter of nanosecond readings 1..MaxTime.    *)
(* The identifier "cb_<n>" is the number n, the empty identifier "" is     *)
(* EmptyID.  A nil pointer / missing item is NoItem.                       *)
(***************************************************************************)
EXTENDS Integers, Sequences, FiniteSets, TLC

\* ------------------------------------------------------------------ bounds
\* clock readings are 1..MaxTime
MaxTime == 2
\* records the table holds at most under Spec
MaxRecords == 1
\* identifiers a caller can choose are 1..MaxId
MaxId == 4
\* List is called with offset 0..MaxOffset and limit 1..MaxLimit
MaxOffset == 3
MaxLimit == 3
\* the store puts at most MaxPage items in one page of a Scan
MaxPage == 2

\* --------------------------------------------------------------- constants
\* the empty identifier "" (Save generates an identifier for it)
EmptyID == 0
\* a nil LastEvaluatedKey / ExclusiveStartKey; a key is otherwise the position
\* in the sweep of the last item the store evaluated
NoKey == 0

\* the response statuses of the handler
StatusCreated == 201
StatusBadRequest == 400
StatusMethodNotAllowed == 405
StatusUnsupportedMediaType == 415
StatusConflict == 409
StatusInternalServerError == 500

TxIds == {"tx1", "tx2"}
Merchants == {"m1", "m2"}
StatusPending == "pending"
StatusApproved == "approved"
StatusRejected == "rejected"
Statuses == {StatusPending, StatusApproved, StatusRejected}

Times == 1..MaxTime
Ids == 1..MaxId
\* a nil *entity.Chargeback, a nil result.Item
NoItem == [absent |-> TRUE]

VARIABLES
    table,   \* the DynamoDB table: id -> item, NoItem where no item is stored
    gsi,     \* what the secondary indexes hold: id -> item, lagging the table
    now,     \* the clock, time.Now()
    last,    \* the repository call that returned in the step leading here
    deleted, \* history: ids a Delete removed and no Save has stored again since
    sweep,   \* the List call in progress: its arguments and local variables
    wf,      \* the creation workflows: where each is and how it ended
    srv,     \* the process: where main is, whether the HTTP server serves
    client   \* the callers of the repository: their records and positions

vars == <<table, gsi, now, last, deleted, sweep, wf, srv, client>>

\* timestamps a caller can put in a record: the earliest and the latest reading
CallerTimes == {1, MaxTime}

\* entity.Chargeback values a caller of the repository can pass under Spec;
\* their identifiers are "" or of the form the generator produces
Chargebacks == [id : (1..MaxTime) \cup {EmptyID}, tx : {"tx1"},
                merchant : {"m1"}, status : Statuses,
                createdAt : CallerTimes, updatedAt : CallerTimes]

\* Update overwrites the caller's UpdatedAt, so one value of it is enough
UpdateInputs == {c \in Chargebacks : c.updatedAt = 1}

\* ------------------------------------------------------------ conversions
\* chargebackItem built field by field from the entity (Save, Update)
entityToItem(c) == [id |-> c.id, tx |-> c.tx, merchant |-> c.merchant,
                    status |-> c.status,
                    createdAt |-> c.createdAt, updatedAt |-> c.updatedAt]

\* itemToEntity: the entity built field by field from the item
itemToEntityStatusDefault(item) ==
    [id |-> item.id, tx |-> item.tx, merchant |-> item.merchant,
     status |-> StatusPending,
     createdAt |-> item.createdAt, updatedAt |-> item.updatedAt]

itemToEntity(item) == [id |-> item.id, tx |-> item.tx, merchant |-> item.merchant,
                       status |-> item.status,
                       createdAt |-> item.createdAt, updatedAt |-> item.updatedAt]

\* generateChargebackID: "cb_" followed by the clock reading in nanoseconds
generateNoID(t) == EmptyID

generateChargebackID(t) == t

\* ------------------------------------------------------------------ store
\* attribute_exists(id) evaluated by the store on the item under that key
attributeExists(t, id) == id \in DOMAIN t /\ t[id] # NoItem

StoredIds(t) == {i \in DOMAIN t : t[i] # NoItem}

\* PutItem with a ConditionExpression: the item is written when the call goes
\* through and the condition holds (ok); the table is as it was otherwise
PutItemUnconditional(t, id, item, ok) == [t EXCEPT ![id] = item]

PutItem(t, id, item, ok) == IF ok THEN [t EXCEPT ![id] = item] ELSE t

\* the operations of the repository
Operations == {"Save", "FindByID", "FindByTransactionID", "FindByMerchantID",
               "Update", "Delete", "FindByStatus", "List"}

\* the text each operation puts in front of the error of its store call
errorText(op) ==
    CASE op = "Save" -> "failed to save chargeback"
      [] op = "FindByID" -> "failed to get chargeback"
      [] op = "FindByTransactionID" -> "failed to query chargeback by transaction ID"
      [] op = "FindByMerchantID" -> "failed to query chargebacks by merchant ID"
      [] op = "Update" -> "failed to update chargeback"
      [] op = "Delete" -> "failed to delete chargeback"
      [] op = "FindByStatus" -> "failed to query chargebacks by status"
      [] op = "List" -> "failed to scan chargebacks"
      [] OTHER -> ""

\* a nil error; fmt.Errorf("<text>: %w", err), which keeps the store's error
\* as its cause
NoError == [text |-> "", cause |-> FALSE]
wrapped(op, err) == IF err THEN [text |-> errorText(op), cause |-> TRUE] ELSE NoError

\* the mutation of scanFailed: the items accumulated so far are returned
scanFailedPartial(accumulated) == accumulated

\* return nil, fmt.Errorf(...) in List: no item, whatever was accumulated
scanFailed(accumulated) == <<>>

\* the record of a repository call kept in `last`; argId is the identifier of
\* the record as the caller passed it
Call(op, id, tx, storeErr, err, res) ==
    [op |-> op, id |-> id, tx |-> tx, storeErr |-> storeErr, err |-> err,
     res |-> res, offset |-> 0, limit |-> 0, list |-> <<>>, scanned |-> 0,
     argId |-> id, key |-> "", msg |-> wrapped(op, err)]

\* the step leading here was not the return of a repository call
NoCall == Call("none", EmptyID, "", FALSE, FALSE, NoItem)

\* the record of a List call: the list it returned and how many items it had
\* accumulated when it returned
ListCall(offset, limit, storeErr, list, scanned) ==
    [op |-> "List", id |-> EmptyID, tx |-> "", storeErr |-> storeErr,
     err |-> storeErr, res |-> NoItem, offset |-> offset, limit |-> limit,
     list |-> list, scanned |-> scanned, argId |-> EmptyID, key |-> "",
     msg |-> wrapped("List", storeErr)]

\* ------------------------------------------------------------- repository
\* Save: generate the id when empty, PutItem under attribute_not_exists(id)
SaveGuardMissing(t, id) == TRUE

SaveGuard(t, id) == ~attributeExists(t, id)

\* lines 50-53: the identifier Save writes under, for a record passed with
\* identifier c.id at clock reading t
idAlwaysGenerated(c, t) == generateChargebackID(t)

idOnSave(c, t) == IF c.id = EmptyID THEN generateChargebackID(t) ELSE c.id

SaveCall(c, storeFails) ==
    LET id == idOnSave(c, now)
        item == entityToItem([c EXCEPT !.id = id])
        ok == ~storeFails /\ SaveGuard(table, id)
    IN /\ table' = PutItem(table, id, item, ok)
       /\ last' = [Call("Save", id, c.tx, storeFails, ~ok, NoItem) EXCEPT !.argId = c.id]
       /\ deleted' = IF ok THEN deleted \ {id} ELSE deleted

Save(c, storeFails) ==
    /\ SaveCall(c, storeFails)
    /\ UNCHANGED <<gsi, now, sweep, wf, srv, client>>

\* the error of a read: non-nil when the store call failed, and only then; a
\* missing item is no error
notFoundIsError(storeFails, found) == storeFails \/ ~found

readError(storeFails, found) == storeFails

\* FindByID: GetItem on the table; nil, nil when the item is missing
FindByIDResult(t, id) == IF t[id] = NoItem THEN NoItem ELSE itemToEntity(t[id])

FindByID(id, storeFails) ==
    /\ last' = Call("FindByID", id, "", storeFails,
                    readError(storeFails, attributeExists(table, id)),
                    IF storeFails THEN NoItem ELSE FindByIDResult(table, id))
    /\ UNCHANGED <<table, gsi, now, deleted, sweep, wf, srv, client>>

\* the ids of the items transaction-id-index holds under a transaction id
QueryTxIndex(g, tx) == {i \in DOMAIN g : g[i] # NoItem /\ g[i].tx = tx}

\* the items a Query with Limit 1 can answer with: one of the matches (the
\* store chooses which), none when nothing matches
QueryHits(g, tx) == IF QueryTxIndex(g, tx) = {} THEN {EmptyID} ELSE QueryTxIndex(g, tx)

\* FindByTransactionID: Query on transaction-id-index with Limit 1; nil, nil
\* when the answer has no items, else the first item
FindByTransactionIDCall(tx, hit, storeFails) ==
    /\ hit \in QueryHits(gsi, tx)
    /\ last' = Call("FindByTransactionID", EmptyID, tx, storeFails,
                    readError(storeFails, hit # EmptyID),
                    IF storeFails \/ hit = EmptyID THEN NoItem
                    ELSE itemToEntity(gsi[hit]))

FindByTransactionID(tx, hit, storeFails) ==
    /\ FindByTransactionIDCall(tx, hit, storeFails)
    /\ UNCHANGED <<table, gsi, now, deleted, sweep, wf, srv, client>>

\* the store brings the index up to date with the table for one key, some
\* time after the write
IndexPropagate(id) ==
    /\ gsi[id] # table[id]
    /\ gsi' = [gsi EXCEPT ![id] = table[id]]
    /\ last' = NoCall
    /\ UNCHANGED <<table, now, deleted, sweep, wf, srv, client>>

\* Update: refresh UpdatedAt, PutItem under attribute_exists(id)
UpdateGuardMissing(t, id) == id \in DOMAIN t

UpdateGuard(t, id) == attributeExists(t, id)

\* chargeback.UpdatedAt = time.Now()
UpdatedAtNotRefreshed(c, t) == c.updatedAt

UpdatedAtOnUpdate(c, t) == t

\* lines 174-206: the PutItem of the record c1, whose UpdatedAt is refreshed
UpdateCall(c1, storeFails) ==
    LET ok == ~storeFails /\ UpdateGuard(table, c1.id)
    IN /\ table' = PutItem(table, c1.id, entityToItem(c1), ok)
       /\ last' = Call("Update", c1.id, c1.tx, storeFails, ~ok, NoItem)

Update(c, storeFails) ==
    /\ UpdateCall([c EXCEPT !.updatedAt = UpdatedAtOnUpdate(c, now)], storeFails)
    /\ UNCHANGED <<gsi, now, deleted, sweep, wf, srv, client>>

\* Delete: DeleteItem under attribute_exists(id)
DeleteGuardMissing(t, id) == id \in DOMAIN t

DeleteGuard(t, id) == attributeExists(t, id)

Delete(id, storeFails) ==
    LET ok == ~storeFails /\ DeleteGuard(table, id)
    IN /\ table' = IF ok THEN [table EXCEPT ![id] = NoItem] ELSE table
       /\ last' = Call("Delete", id, "", storeFails, ~ok, NoItem)
       /\ deleted' = IF ok THEN deleted \cup {id} ELSE deleted
       /\ UNCHANGED <<gsi, now, sweep, wf, srv, client>>

\* the clock advances between calls
Tick ==
    /\ now < MaxTime
    /\ now' = now + 1
    /\ last' = NoCall
    /\ UNCHANGED <<table, gsi, deleted, sweep, wf, srv, client>>

\* ------------------------------------------------------ creation workflow
Procs == {"w1", "w2"}

\* the phrases handleUseCaseError looks for in the message of a workflow error
PhraseValidation == "validation errors"
PhraseExists == "already exists"
PhraseEntity == "failed to create chargeback entity"

\* a message is the set of those phrases that it contains
NoPhrases == {}

\* the messages of the errors the store comes back with: one that contains
\* none of the phrases ("database connection failed"), and one for each of two
\* phrases ("2 validation errors detected: ...", when the store rejects the
\* request parameters)
StoreTexts == {NoPhrases, {PhraseValidation}, {PhraseExists}}

\* handleUseCaseError: the status is chosen by the first phrase, in the order
\* of the switch, that the message contains
handleUseCaseError(msg) ==
    IF PhraseValidation \in msg THEN StatusBadRequest
    ELSE IF PhraseExists \in msg THEN StatusConflict
    ELSE IF PhraseEntity \in msg THEN StatusBadRequest
    ELSE StatusInternalServerError

\* ------------------------------------------------- the request, as received
Methods == {"POST", "GET"}
\* values of the Content-Type header ("" when the header is missing) and those
\* of them that contain "application/json"
ContentTypes == {"application/json", "application/json; charset=utf-8",
                 "text/plain", ""}
JsonContentTypes == {"application/json", "application/json; charset=utf-8"}
\* values of transaction_date and those of them time.Parse accepts as RFC3339
Dates == {"2023-10-10T10:00:00Z", "2023-10-10", ""}
RFC3339Dates == {"2023-10-10T10:00:00Z"}
\* the reasons the README documents, the reasons parseChargebackReason knows
ReadmeReasons == {"fraud", "duplicate", "subscription", "product_not_received",
                  "credit_not_processed"}
ParserReasons == {"fraud", "authorization_error", "processing_error",
                  "consumer_dispute"}
Reasons == ReadmeReasons \cup {"FRAUD", "consumer_dispute", "invalid_reason", ""}

\* strings.ToLower on the reasons above
ToLower(reason) == IF reason = "FRAUD" THEN "fraud" ELSE reason

\* parseChargebackReason: TRUE when it returns a reason and no error
parseChargebackReason(reason) == ToLower(reason) \in ParserReasons

\* a body that does not decode leaves the fields of the request struct empty
AllRequests == {r \in [method : Methods, contentType : ContentTypes,
                      jsonOk : BOOLEAN, date : Dates, reason : Reasons] :
                   r.jsonOk \/ (r.date = "" /\ r.reason = "")}
ValidRequest == [method |-> "POST", contentType |-> "application/json",
                 jsonOk |-> TRUE, date |-> "2023-10-10T10:00:00Z",
                 reason |-> "fraud"]
InvalidReasonRequest == [ValidRequest EXCEPT !.reason = "invalid_reason"]
NoRequest == [method |-> "", contentType |-> "", jsonOk |-> FALSE,
              date |-> "", reason |-> ""]

\* the mutation of requestCheck: the content type is looked at before the
\* method
requestCheckContentTypeFirst(req) ==
    IF req.contentType \notin JsonContentTypes THEN "contentType"
    ELSE IF req.method # "POST" THEN "method"
    ELSE IF ~req.jsonOk THEN "json"
    ELSE IF req.date \notin RFC3339Dates THEN "date"
    ELSE IF ~parseChargebackReason(req.reason) THEN "reason"
    ELSE "none"

\* CreateChargeback, lines 52-93: the checks in the order of the code; the
\* first one that fails, "none" when the request passes them all
requestCheck(req) ==
    IF req.method # "POST" THEN "method"
    ELSE IF req.contentType \notin JsonContentTypes THEN "contentType"
    ELSE IF ~req.jsonOk THEN "json"
    ELSE IF req.date \notin RFC3339Dates THEN "date"
    ELSE IF ~parseChargebackReason(req.reason) THEN "reason"
    ELSE "none"

\* the status the handler answers a failed check with
statusOfCheck(check) ==
    IF check = "method" THEN StatusMethodNotAllowed
    ELSE IF check = "contentType" THEN StatusUnsupportedMediaType
    ELSE StatusBadRequest

\* a request in progress: the request (req, tx; reasonOk: its reason parses),
\* where the workflow is (pc), how it ended (outcome, id), the response
\* (http, 0 while there is none; msg and problems of the error body)
NoWorkflow == [pc |-> "idle", tx |-> "", outcome |-> "none", id |-> EmptyID,
               dup |-> FALSE, storeErr |-> FALSE, reasonOk |-> TRUE,
               http |-> 0, msg |-> NoPhrases, problems |-> {},
               req |-> NoRequest]

\* the workflow returned an error with message msg, listing `problems`
Failed(w, outcome, msg, problems) ==
    [w EXCEPT !.pc = "done", !.outcome = outcome, !.msg = msg,
              !.problems = problems, !.http = handleUseCaseError(msg)]

\* history: a workflow for the same transaction id has returned successfully
\* and its record is in the table
CreatedBefore(p, tx) ==
    \E q \in Procs \ {p} :
        /\ wf[q].pc = "done" /\ wf[q].outcome = "created" /\ wf[q].tx = tx
        /\ attributeExists(table, wf[q].id)

\* the violations step 1 of the workflow finds in a request
Violations(tx) == IF tx = "" THEN {"transaction_id"} ELSE {}

\* CreateChargeback, lines 52-93: a check fails; the handler answers with the
\* status of that check and returns, the workflow is not run
CreateChargebackRejects(p, req, tx) ==
    /\ wf[p].pc = "idle"
    /\ requestCheck(req) # "none"
    /\ wf' = [wf EXCEPT ![p] =
           [NoWorkflow EXCEPT !.pc = "done", !.outcome = requestCheck(req),
                              !.tx = tx, !.req = req,
                              !.reasonOk = parseChargebackReason(req.reason),
                              !.http = statusOfCheck(requestCheck(req)),
                              !.problems = IF requestCheck(req) = "reason"
                                           THEN {"reason"} ELSE {}]]
    /\ last' = NoCall
    /\ UNCHANGED <<table, gsi, now, deleted, sweep, srv, client>>

\* lines 86-93: parseChargebackReason fails on the reason of a request that
\* is otherwise well-formed
CreateChargebackInvalidReason(p, tx) ==
    CreateChargebackRejects(p, InvalidReasonRequest, tx)

\* the request passed the checks, the handler runs the workflow, of which this
\* is steps 1 and 2: validate the request, then look the transaction id up
CreateCheck(p, req, tx, hit, storeFails, text) ==
    /\ wf[p].pc = "idle"
    /\ requestCheck(req) = "none"
    /\ IF Violations(tx) # {}
       THEN /\ wf' = [wf EXCEPT ![p] =
                 Failed([NoWorkflow EXCEPT !.tx = tx, !.req = req], "validation",
                        {PhraseValidation}, Violations(tx))]
            /\ last' = NoCall
       ELSE /\ FindByTransactionIDCall(tx, hit, storeFails)
            /\ LET w == [NoWorkflow EXCEPT !.tx = tx, !.req = req,
                                           !.dup = CreatedBefore(p, tx),
                                           !.storeErr = storeFails]
               IN wf' = [wf EXCEPT ![p] =
                      IF last'.err THEN Failed(w, "internal", text, {})
                      ELSE IF last'.res # NoItem
                      THEN Failed(w, "conflict", {PhraseExists}, {})
                      ELSE [w EXCEPT !.pc = "save"]]
    /\ UNCHANGED <<table, gsi, now, deleted, sweep, srv, client>>

\* steps 4 and 5: construct the record (status pending, timestamps the
\* current time, no identifier) and Save it
NewChargeback(tx, t) == [id |-> EmptyID, tx |-> tx, merchant |-> "m1",
                         status |-> StatusPending,
                         createdAt |-> t, updatedAt |-> t]

CreateSave(p, constructFails, storeFails, text) ==
    /\ wf[p].pc = "save"
    /\ IF constructFails
       THEN /\ wf' = [wf EXCEPT ![p] = Failed(wf[p], "entity", {PhraseEntity}, {})]
            /\ last' = NoCall
            /\ UNCHANGED <<table, deleted>>
       ELSE /\ SaveCall(NewChargeback(wf[p].tx, now), storeFails)
            /\ wf' = [wf EXCEPT ![p] =
                 IF last'.err
                 THEN Failed([wf[p] EXCEPT !.storeErr = storeFails], "internal",
                             text, {})
                 ELSE [wf[p] EXCEPT !.pc = "done", !.outcome = "created",
                                    !.id = last'.id, !.storeErr = FALSE,
                                    !.http = StatusCreated]]
    /\ UNCHANGED <<gsi, now, sweep, srv, client>>

\* ------------------------------------------------------------------- List
Min(a, b) == IF a < b THEN a ELSE b

RECURSIVE SortedIds(_)
SortedIds(S) ==
    IF S = {} THEN <<>>
    ELSE LET m == CHOOSE x \in S : \A y \in S : x <= y
         IN <<m>> \o SortedIds(S \ {m})

\* the order in which a Scan of the table meets the items: fixed by the store
\* for a given table (here: by ascending key)
SweepOrder(t) == [k \in 1..Cardinality(StoredIds(t)) |-> t[SortedIds(StoredIds(t))[k]]]

\* the entities List builds from the items it keeps
entitiesOf(items) == [k \in 1..Len(items) |-> itemToEntity(items[k])]

NoSweep == [pc |-> "idle", offset |-> 0, limit |-> 0, scanned |-> <<>>,
            lastKey |-> NoKey]

\* one page of a Scan that starts after `startKey` and asks for `limit` items
\* and returns `k`: the page and its LastEvaluatedKey. The store ends a page
\* at `limit` items or earlier (MaxPage); a page that ends with the last item
\* of the table may or may not carry a key (tokenAtEnd).
ScanPage(items, startKey, k, tokenAtEnd) ==
    [items |-> SubSeq(items, startKey + 1, startKey + k),
     lastKey |-> IF startKey + k < Len(items) \/ (k > 0 /\ tokenAtEnd)
                 THEN startKey + k ELSE NoKey]

\* the page sizes the store can answer with
PageSizes(items, startKey, limit) ==
    LET most == Min(Min(limit, MaxPage), Len(items) - startKey)
    IN IF most = 0 THEN {0} ELSE 1..most

\* the store rejects a Scan whose Limit is below 1
scanRejected(limit) == limit < 1

\* for len(scannedItems) < offset+limit
keepScanningNoOffset(n, offset, limit) == n < limit

keepScanning(n, offset, limit) == n < offset + limit

\* lines 290-300: the items List keeps of those it accumulated
takeNeededOneEarly(scanned, offset, limit) ==
    IF offset > Len(scanned) THEN <<>>
    ELSE SubSeq(scanned, offset, Min(offset + limit, Len(scanned)))

takeNeeded(scanned, offset, limit) ==
    IF offset >= Len(scanned) THEN <<>>
    ELSE LET endIndex == Min(offset + limit, Len(scanned))
         IN SubSeq(scanned, offset + 1, endIndex)

\* List is entered: the branch is chosen on offset > 0
ListBegin(offset, limit) ==
    /\ sweep.pc = "idle"
    /\ sweep' = [pc |-> IF offset > 0 THEN "loop" ELSE "simple",
                 offset |-> offset, limit |-> limit, scanned |-> <<>>,
                 lastKey |-> NoKey]
    /\ last' = NoCall
    /\ UNCHANGED <<table, gsi, now, deleted, wf, srv, client>>

\* one iteration of the loop of the offset > 0 branch: a Scan, the append, the
\* break on a nil key, the loop condition; when the loop is left, the slice
\* and the return
ListScanLoop(k, tokenAtEnd, storeFails) ==
    /\ sweep.pc = "loop"
    /\ scanRejected(sweep.limit) => storeFails
    /\ k \in PageSizes(SweepOrder(table), sweep.lastKey, sweep.limit)
    /\ LET page == ScanPage(SweepOrder(table), sweep.lastKey, k, tokenAtEnd)
           scanned == sweep.scanned \o page.items
       IN IF storeFails
          THEN /\ last' = ListCall(sweep.offset, sweep.limit, TRUE,
                                   entitiesOf(scanFailed(sweep.scanned)),
                                   Len(sweep.scanned))
               /\ sweep' = NoSweep
          ELSE IF page.lastKey # NoKey
                  /\ keepScanning(Len(scanned), sweep.offset, sweep.limit)
          THEN /\ sweep' = [sweep EXCEPT !.scanned = scanned,
                                         !.lastKey = page.lastKey]
               /\ last' = last
          ELSE /\ last' = ListCall(sweep.offset, sweep.limit, FALSE,
                                   entitiesOf(takeNeeded(scanned, sweep.offset, sweep.limit)),
                                   Len(scanned))
               /\ sweep' = NoSweep
    /\ UNCHANGED <<table, gsi, now, deleted, wf, srv, client>>

\* the offset = 0 branch: one Scan, and its page is the result
ListScanSimple(k, tokenAtEnd, storeFails) ==
    /\ sweep.pc = "simple"
    /\ scanRejected(sweep.limit) => storeFails
    /\ k \in PageSizes(SweepOrder(table), NoKey, sweep.limit)
    /\ LET page == ScanPage(SweepOrder(table), NoKey, k, tokenAtEnd)
       IN last' = IF storeFails
                  THEN ListCall(sweep.offset, sweep.limit, TRUE, <<>>, 0)
                  ELSE ListCall(sweep.offset, sweep.limit, FALSE,
                                entitiesOf(page.items), Len(page.items))
    /\ sweep' = NoSweep
    /\ UNCHANGED <<table, gsi, now, deleted, wf, srv, client>>

\* ------------------------------------------- FindByMerchantID, FindByStatus
\* the items an index holds under a value of its key attribute, in the order
\* the store answers a Query in (here: by ascending id)
MatchingIds(g, attr, v) == {i \in StoredIds(g) : g[i][attr] = v}

QueryIndex(g, attr, v) ==
    [k \in 1..Cardinality(MatchingIds(g, attr, v)) |->
        g[SortedIds(MatchingIds(g, attr, v))[k]]]

\* the record of a FindByMerchantID / FindByStatus call: the key it asked for
\* and the list it returned
QueryResult(op, v, storeErr, list) ==
    [ListCall(0, 0, storeErr, list, Len(list)) EXCEPT !.op = op, !.key = v,
                                                      !.msg = wrapped(op, storeErr)]

\* one Query on an index with no Limit: the store answers with one page of at
\* most MaxPage items; result.Items is converted and returned, the answer's
\* LastEvaluatedKey is not looked at
QueryCall(op, attr, v, k, storeFails) ==
    /\ k \in PageSizes(QueryIndex(gsi, attr, v), NoKey, MaxPage)
    /\ LET page == ScanPage(QueryIndex(gsi, attr, v), NoKey, k, FALSE)
       IN last' = IF storeFails THEN QueryResult(op, v, TRUE, <<>>)
                  ELSE QueryResult(op, v, FALSE, entitiesOf(page.items))
    /\ UNCHANGED <<table, gsi, now, deleted, sweep, wf, srv, client>>

FindByMerchantID(merchantID, k, storeFails) ==
    QueryCall("FindByMerchantID", "merchant", merchantID, k, storeFails)

FindByStatus(status, k, storeFails) ==
    QueryCall("FindByStatus", "status", status, k, storeFails)

\* ------------------------------------------------------------------- main
\* main after the server goroutine is started: blocked on <-quit, the server
\* serving; no shutdown context yet
Serving == [pc |-> "serving", listening |-> TRUE, shutdownCtx |-> FALSE]

\* SIGINT or SIGTERM arrives on quit; main logs "Shutting down server..."
MainSignal ==
    /\ srv.pc = "serving"
    /\ srv' = [srv EXCEPT !.pc = "signalled"]
    /\ last' = NoCall
    /\ UNCHANGED <<table, gsi, now, deleted, sweep, wf, client>>

\* context.WithTimeout(context.Background(), 30*time.Second); the context is
\* assigned to the blank identifier and handed to nothing
MainShutdownContext ==
    /\ srv.pc = "signalled"
    /\ srv' = [srv EXCEPT !.pc = "context", !.shutdownCtx = TRUE]
    /\ last' = NoCall
    /\ UNCHANGED <<table, gsi, now, deleted, sweep, wf, client>>

\* main logs "Server shutdown complete"
MainComplete ==
    /\ srv.pc = "context"
    /\ srv' = [srv EXCEPT !.pc = "complete"]
    /\ last' = NoCall
    /\ UNCHANGED <<table, gsi, now, deleted, sweep, wf, client>>

\* main returns: the deferred cancel runs, the process ends and with it the
\* server goroutine and the requests it was handling
MainReturn ==
    /\ srv.pc = "complete"
    /\ srv' = [pc |-> "exited", listening |-> FALSE, shutdownCtx |-> FALSE]
    /\ last' = NoCall
    /\ UNCHANGED <<table, gsi, now, deleted, sweep, wf, client>>

\* ---------------------------------------------------------------- callers
\* two callers of one repository, each holding one record (the *Chargeback it
\* passes to the repository and gets from it); Save and Update are taken in
\* two steps, the change of the caller's record and the store call, so that
\* the calls of the two interleave
Clients == {"a", "b"}

\* rec: the caller's record, NoItem when it holds none; saved: how the latest
\* Save of that record ended ("none": not tried, "ok", "exists": rejected by
\* the condition, "failed": the store call failed); updated: whether an Update
\* of that record has succeeded
NoClient == [pc |-> "idle", rec |-> NoItem, saved |-> "none", updated |-> FALSE]

\* the transaction each caller's new records are of, the status each decides
TxOf(k) == IF k = "a" THEN "tx1" ELSE "tx2"
DecisionOf(k) == IF k = "a" THEN StatusApproved ELSE StatusRejected

\* the caller constructs a record: pending, no identifier
ClientNew(k) ==
    /\ client[k].pc = "idle" /\ client[k].rec = NoItem
    /\ client' = [client EXCEPT ![k].rec = NewChargeback(TxOf(k), now)]
    /\ last' = NoCall
    /\ UNCHANGED <<table, gsi, now, deleted, sweep, wf, srv>>

\* Save, lines 50-53: the identifier is generated into the caller's record.
\* The caller Saves a record it constructed, and again after a failure of the
\* store.
ClientSaveBegin(k) ==
    /\ client[k].pc = "idle" /\ client[k].rec # NoItem
    /\ client[k].rec.id = EmptyID \/ client[k].saved = "failed"
    /\ client' = [client EXCEPT ![k] =
           [@ EXCEPT !.pc = "saving",
                     !.rec = [client[k].rec EXCEPT
                                 !.id = idOnSave(client[k].rec, now)]]]
    /\ last' = NoCall
    /\ UNCHANGED <<table, gsi, now, deleted, sweep, wf, srv>>

\* Save, lines 55-87: the PutItem and the return; the record stays as it is
ClientSavePut(k, storeFails) ==
    /\ client[k].pc = "saving"
    /\ SaveCall(client[k].rec, storeFails)
    /\ client' = [client EXCEPT ![k] =
           [@ EXCEPT !.pc = "idle",
                     !.saved = IF storeFails THEN "failed"
                               ELSE IF last'.err THEN "exists" ELSE "ok"]]
    /\ UNCHANGED <<gsi, now, sweep, wf, srv>>

\* FindByID of a stored record: the caller's record is the one returned
ClientFind(k, id) ==
    /\ client[k].pc = "idle"
    /\ attributeExists(table, id)
    /\ last' = Call("FindByID", id, "", FALSE, FALSE, FindByIDResult(table, id))
    /\ client' = [client EXCEPT ![k] =
           [@ EXCEPT !.saved = "none", !.updated = FALSE,
                     !.rec = FindByIDResult(table, id)]]
    /\ UNCHANGED <<table, gsi, now, deleted, sweep, wf, srv>>

\* the caller decides the pending record it has read or stored
ClientDecide(k) ==
    /\ client[k].pc = "idle" /\ client[k].rec # NoItem
    /\ client[k].rec.id # EmptyID
    /\ client[k].rec.status = StatusPending
    /\ client' = [client EXCEPT ![k].rec.status = DecisionOf(k)]
    /\ last' = NoCall
    /\ UNCHANGED <<table, gsi, now, deleted, sweep, wf, srv>>

\* Update, line 172: UpdatedAt is refreshed in the caller's record
ClientUpdateBegin(k) ==
    /\ client[k].pc = "idle" /\ client[k].rec # NoItem
    /\ client[k].rec.status = DecisionOf(k)
    /\ client' = [client EXCEPT ![k] =
           [@ EXCEPT !.pc = "updating",
                     !.rec = [client[k].rec EXCEPT
                                 !.updatedAt = UpdatedAtOnUpdate(client[k].rec, now)]]]
    /\ last' = NoCall
    /\ UNCHANGED <<table, gsi, now, deleted, sweep, wf, srv>>

\* Update, lines 174-206: the PutItem and the return; the record stays as it is
ClientUpdatePut(k, storeFails) ==
    /\ client[k].pc = "updating"
    /\ UpdateCall(client[k].rec, storeFails)
    /\ client' = [client EXCEPT ![k] =
           [@ EXCEPT !.pc = "idle", !.updated = @ \/ ~last'.err]]
    /\ UNCHANGED <<gsi, now, deleted, sweep, wf, srv>>

\* ---------------------------------------------------------- specification
Init ==
    /\ table = [i \in Ids |-> NoItem]
    /\ gsi = [i \in Ids |-> NoItem]
    /\ now = 1
    /\ last = NoCall
    /\ deleted = {}
    /\ sweep = NoSweep
    /\ wf = [p \in Procs |-> NoWorkflow]
    /\ srv = Serving
    /\ client = [k \in Clients |-> NoClient]

\* the table holds at most `cap` records: a Save that would add one more is
\* not taken
Fits(c, cap) ==
    \/ Cardinality(StoredIds(table)) < cap
    \/ attributeExists(table, idOnSave(c, now))

\* when the store call fails, only the identifier of the record plays a part
FailingInputs == {c \in Chargebacks : c.status = StatusPending
                                       /\ c.createdAt = 1 /\ c.updatedAt = 1}

RepoSave == \E c \in Chargebacks : Fits(c, MaxRecords) /\ Save(c, FALSE)
RepoSaveStoreFails == \E c \in FailingInputs : Save(c, TRUE)
RepoFindByID == \E id \in 1..MaxTime, f \in BOOLEAN : FindByID(id, f)
RepoUpdate == \E c \in UpdateInputs : Update(c, FALSE)
RepoUpdateStoreFails == \E c \in FailingInputs : Update(c, TRUE)
RepoDelete == \E id \in 1..MaxTime, f \in BOOLEAN : Delete(id, f)

Next == RepoSave \/ RepoSaveStoreFails \/ RepoFindByID \/ RepoUpdate
        \/ RepoUpdateStoreFails \/ RepoDelete \/ Tick

Spec == Init /\ [][Next]_vars

\* the table under List: records saved and deleted between the sweeps; no
\* write falls inside a sweep
ListRecords == [id : Ids, tx : {"tx1"}, merchant : {"m1"}, status : {StatusPending},
                createdAt : {1}, updatedAt : {1}]

ListSave == \E c \in ListRecords : sweep.pc = "idle" /\ Save(c, FALSE)
ListDelete == \E id \in Ids : sweep.pc = "idle" /\ Delete(id, FALSE)
ListEnter == \E offset \in 0..MaxOffset, limit \in 0..MaxLimit : ListBegin(offset, limit)
ListLoop == \E k \in 0..MaxPage, e, f \in BOOLEAN : ListScanLoop(k, e, f)
ListSimple == \E k \in 0..MaxPage, e, f \in BOOLEAN : ListScanSimple(k, e, f)

NextList == ListSave \/ ListDelete \/ ListEnter \/ ListLoop \/ ListSimple

SpecList == Init /\ [][NextList]_vars

\* List over tables of every size up to MaxId, filled in the order of the
\* identifiers; a List call that is entered goes on running: each of its
\* Scans returns
ListFill == \E c \in ListRecords :
                /\ sweep.pc = "idle"
                /\ c.id = Cardinality(StoredIds(table)) + 1
                /\ Save(c, FALSE)

NextListFair == ListFill \/ ListEnter \/ ListLoop \/ ListSimple

SpecListFair == Init /\ [][NextListFair]_vars /\ WF_vars(ListLoop \/ ListSimple)

\* creation workflows over the table and its transaction-id index
Requests == TxIds \cup {""}

\* a store call that succeeds has no error text
CreateInvalidReason == \E p \in Procs, tx \in Requests :
                           CreateChargebackInvalidReason(p, tx)
CreateStart == \E p \in Procs, tx \in Requests,
                  hit \in Ids \cup {EmptyID}, f \in BOOLEAN, text \in StoreTexts :
                   (f \/ text = NoPhrases) /\ CreateCheck(p, ValidRequest, tx, hit, f, text)
CreateStore == \E p \in Procs, c, f \in BOOLEAN, text \in StoreTexts :
                   (f \/ text = NoPhrases) /\ CreateSave(p, c, f, text)
IndexCatchUp == \E id \in Ids : IndexPropagate(id)
IndexFindByTx == \E tx \in TxIds, hit \in Ids \cup {EmptyID}, f \in BOOLEAN :
                     FindByTransactionID(tx, hit, f)
IndexFindByID == \E id \in 1..MaxTime, f \in BOOLEAN : FindByID(id, f)
IndexDelete == \E id \in 1..MaxTime : Delete(id, FALSE)

NextCreate == CreateInvalidReason \/ CreateStart \/ CreateStore \/ IndexCatchUp \/ IndexFindByTx
              \/ IndexFindByID \/ IndexDelete \/ Tick

SpecCreate == Init /\ [][NextCreate]_vars

\* the process: main, and the server handling one request, for as long as the
\* process lives
ServerRejects == \E req \in AllRequests, tx \in Requests :
                     srv.listening /\ CreateChargebackRejects("w1", req, tx)
ServerStart == \E req \in AllRequests, tx \in Requests,
                  hit \in Ids \cup {EmptyID}, f \in BOOLEAN, text \in StoreTexts :
                   /\ srv.listening
                   /\ f \/ text = NoPhrases
                   /\ CreateCheck("w1", req, tx, hit, f, text)
ServerStore == \E c, f \in BOOLEAN, text \in StoreTexts :
                   /\ srv.listening
                   /\ f \/ text = NoPhrases
                   /\ CreateSave("w1", c, f, text)

NextServer == ServerRejects \/ ServerStart \/ ServerStore \/ MainSignal
              \/ MainShutdownContext \/ MainComplete \/ MainReturn

SpecServer == Init /\ [][NextServer]_vars

\* two callers of the repository
CallerNew == \E k \in Clients : ClientNew(k)
CallerSaveBegin == \E k \in Clients : ClientSaveBegin(k)
CallerSavePut == \E k \in Clients, f \in BOOLEAN : ClientSavePut(k, f)
CallerFind == \E k \in Clients, id \in 1..MaxTime : ClientFind(k, id)
CallerDecide == \E k \in Clients : ClientDecide(k)
CallerUpdateBegin == \E k \in Clients : ClientUpdateBegin(k)
CallerUpdatePut == \E k \in Clients, f \in BOOLEAN : ClientUpdatePut(k, f)

NextCallers == CallerNew \/ CallerSaveBegin \/ CallerSavePut \/ CallerFind
               \/ CallerDecide \/ CallerUpdateBegin \/ CallerUpdatePut \/ Tick

SpecCallers == Init /\ [][NextCallers]_vars

\* the queries over the indexes; the writes are spaced so that the indexes
\* are behind the table by one write at most; the records are of one merchant
\* and differ in status
QueryRecords == [id : (1..MaxTime) \cup {EmptyID}, tx : {"tx1"}, merchant : {"m1"},
                 status : {StatusPending, StatusApproved},
                 createdAt : {1}, updatedAt : {1}]

\* no write falls inside a sweep of List
QuerySettled == gsi = table /\ sweep.pc = "idle"

QuerySave == \E c \in QueryRecords, f \in BOOLEAN : QuerySettled /\ Save(c, f)
QueryUpdate == \E c \in QueryRecords, f \in BOOLEAN : QuerySettled /\ Update(c, f)
QueryDelete == \E id \in 1..MaxTime, f \in BOOLEAN : QuerySettled /\ Delete(id, f)
QueryByMerchant == \E m \in Merchants, k \in 0..MaxPage, f \in BOOLEAN :
                       FindByMerchantID(m, k, f)
QueryByStatus == \E st \in Statuses, k \in 0..MaxPage, f \in BOOLEAN :
                     FindByStatus(st, k, f)
QueryByID == \E id \in 1..MaxTime, f \in BOOLEAN : FindByID(id, f)
QueryByTx == \E hit \in Ids \cup {EmptyID}, f \in BOOLEAN :
                 FindByTransactionID("tx1", hit, f)
QueryListEnter == \E offset \in {0, 1} : ListBegin(offset, MaxPage)
QueryListLoop == \E k \in 0..MaxPage, e, f \in BOOLEAN : ListScanLoop(k, e, f)
QueryListSimple == \E k \in 0..MaxPage, e, f \in BOOLEAN : ListScanSimple(k, e, f)

NextQuery == QuerySave \/ QueryUpdate \/ QueryDelete \/ QueryByMerchant
             \/ QueryByStatus \/ QueryByID \/ QueryByTx \/ QueryListEnter
             \/ QueryListLoop \/ QueryListSimple \/ IndexCatchUp

SpecQuery == Init /\ [][NextQuery]_vars

\* ------------------------------------------------------------------ claims
\* a step that is the repository call `op`
IsCall(op) == last'.op = op

\* C1: a Save whose identifier is that of a stored record fails and leaves the
\* table as it was; a Save that succeeds found no record under its identifier
\* and stores one there, changing nothing else.
C1_SaveRejectsExistingId ==
    [][IsCall("Save") =>
        /\ attributeExists(table, last'.id) => last'.err /\ table' = table
        /\ ~last'.err =>
              /\ ~attributeExists(table, last'.id)
              /\ attributeExists(table', last'.id)
              /\ table'[last'.id].id = last'.id
              /\ \A i \in Ids \ {last'.id} : table'[i] = table[i]]_vars

\* a Save was rejected because its identifier is stored
C1_Witness ==
    /\ last.op = "Save" /\ last.err /\ ~last.storeErr
    /\ attributeExists(table, last.id)

\* C2: an Update for an identifier that is not stored fails and the set of
\* stored identifiers is the same before and after it.
C2_UpdateRejectsMissingId ==
    [][IsCall("Update") /\ ~attributeExists(table, last'.id) =>
        last'.err /\ StoredIds(table') = StoredIds(table)]_vars

\* an Update was rejected for an identifier that a Delete had removed
C2_Witness ==
    /\ last.op = "Update" /\ last.err /\ ~last.storeErr
    /\ last.id \in deleted /\ ~attributeExists(table, last.id)

\* C3: a Delete for an identifier that is not stored fails; once a Delete has
\* succeeded for an identifier, and until a Save stores it again, FindByID of
\* it returns nil with no error (unless the store call itself fails).
C3_DeleteThenAbsent ==
    [][/\ IsCall("Delete") /\ ~attributeExists(table, last'.id) => last'.err
       /\ IsCall("Delete") /\ ~last'.err => ~attributeExists(table', last'.id)
       /\ IsCall("FindByID") /\ last'.id \in deleted' /\ ~last'.storeErr =>
             last'.res = NoItem /\ ~last'.err]_vars

\* FindByID answered for an identifier that was deleted and not saved again
C3_Witness ==
    /\ last.op = "FindByID" /\ ~last.err /\ last.id \in deleted
    /\ last.res = NoItem

\* the records of the table that carry a transaction id
StoredWithTx(t, tx) == {i \in StoredIds(t) : t[i].tx = tx}

\* C4 as stated: FindByID and FindByTransactionID return nil and no error
\* whenever no stored record matches the key, and an error only when the
\* store call fails.
C4_AbsentWhenNothingStored ==
    /\ last.op = "FindByID" /\ ~last.storeErr /\ ~attributeExists(table, last.id)
          => last.res = NoItem /\ ~last.err
    /\ last.op = "FindByTransactionID" /\ ~last.storeErr
          /\ StoredWithTx(table, last.tx) = {}
          => last.res = NoItem /\ ~last.err
    /\ last.op \in {"FindByID", "FindByTransactionID"} /\ last.err => last.storeErr

\* C4 amended: FindByID returns nil and no error whenever the table holds no
\* record under the id; FindByTransactionID returns nil and no error whenever
\* the transaction-id index, which may lag the table, holds no record of the
\* transaction id; both return an error only when the store call fails.
C4_AbsentWhenStoreAnswersNothing ==
    /\ last.op = "FindByID" /\ ~last.storeErr /\ ~attributeExists(table, last.id)
          => last.res = NoItem /\ ~last.err
    /\ last.op = "FindByTransactionID" /\ ~last.storeErr
          /\ StoredWithTx(gsi, last.tx) = {}
          => last.res = NoItem /\ ~last.err
    /\ last.op \in {"FindByID", "FindByTransactionID"} /\ last.err => last.storeErr

\* FindByTransactionID answered nil, nil for a transaction id that the index
\* does not hold although the table does
C4_Witness ==
    /\ last.op = "FindByTransactionID" /\ ~last.err /\ last.res = NoItem
    /\ StoredWithTx(gsi, last.tx) = {}
    /\ StoredWithTx(table, last.tx) # {}

\* C5 as stated: a creation workflow that starts after another one for the
\* same transaction id has returned successfully never reaches Save: it ends
\* with the duplicate-transaction conflict (or with the failure of the store
\* call, when that fails).
C5_SequentialDuplicateConflicts ==
    \A p \in Procs :
        wf[p].dup =>
            /\ wf[p].pc = "done"
            /\ wf[p].outcome = IF wf[p].storeErr THEN "internal" ELSE "conflict"

\* C6: the Save of a creation workflow succeeds exactly when the identifier it
\* generates is not stored (and the store call does not fail), whatever
\* transaction ids the stored records carry; so two workflows for one
\* transaction id that both pass the duplicate check both store a record.
C6_SaveGuardsOnlyTheId ==
    [][\A p \in Procs :
          wf[p].pc = "save" /\ wf'[p].pc = "done" /\ IsCall("Save")
             /\ ~wf'[p].storeErr =>
              /\ wf'[p].outcome = "created"
                    <=> ~attributeExists(table, generateChargebackID(now))
              /\ wf'[p].outcome = "created" =>
                    /\ table'[wf'[p].id].tx = wf[p].tx
                    /\ \A i \in Ids \ {wf'[p].id} : table'[i] = table[i]]_vars

\* two workflows for one transaction id, neither started after the other had
\* returned, both created a record: the table holds two records of that
\* transaction id
C6_Witness ==
    /\ \A p \in Procs : wf[p].outcome = "created" /\ ~wf[p].dup
    /\ wf["w1"].tx = wf["w2"].tx
    /\ wf["w1"].id # wf["w2"].id
    /\ Cardinality(StoredWithTx(table, wf["w1"].tx)) = 2

\* C10 as stated: every successful Update stores a last-update timestamp
\* strictly greater than the one stored before it.
C10_StrictlyForward ==
    [][IsCall("Update") /\ ~last'.err =>
        table'[last'.id].updatedAt > table[last'.id].updatedAt]_vars

\* C10 amended: every successful Update stores the clock reading it takes as
\* the last-update timestamp; that is strictly greater than the timestamp
\* stored before exactly when the clock is past that timestamp.
C10_UpdatedAtIsClockReading ==
    [][IsCall("Update") /\ ~last'.err =>
        /\ table'[last'.id].updatedAt = now
        /\ (table'[last'.id].updatedAt > table[last'.id].updatedAt)
             <=> (now > table[last'.id].updatedAt)]_vars

\* an Update succeeded on a record whose stored timestamp was the current
\* clock reading already
C10_Witness ==
    /\ last.op = "Update" /\ ~last.err
    /\ attributeExists(table, last.id) /\ table[last.id].updatedAt = now

\* the List call that returned last, with the store answering every Scan
ListReturned == last.op = "List" /\ ~last.storeErr

Max(a, b) == IF a > b THEN a ELSE b

\* C7: with offset > 0, List returns the records at positions offset ..
\* min(offset+limit, N)-1 of the sweep (counted from 0), that is
\* min(limit, max(0, N-offset)) records, having accumulated offset+limit
\* records or the whole sweep, however the store cuts the pages.
C7_ListWindow ==
    ListReturned /\ last.offset > 0 =>
        LET all == SweepOrder(table)
            N == Len(all)
        IN /\ ~last.err
           /\ last.list = entitiesOf(SubSeq(all, last.offset + 1,
                                            Min(last.offset + last.limit, N)))
           /\ Len(last.list) = Min(last.limit, Max(0, N - last.offset))
           /\ last.scanned >= Min(last.offset + last.limit, N)

\* List with an offset returned a full window that took more than one page
C7_Witness ==
    /\ ListReturned /\ last.offset > 0
    /\ Len(last.list) = last.limit /\ last.limit > 1
    /\ last.scanned > MaxPage

\* C8 as stated: List(0, limit) returns min(limit, N) records.
C8_NoOffsetFillsLimit ==
    ListReturned /\ last.offset = 0 =>
        Len(last.list) = Min(last.limit, Cardinality(StoredIds(table)))

\* C9: List with offset >= N returns the empty list and no error.
C9_OffsetBeyondEnd ==
    ListReturned /\ last.offset >= Cardinality(StoredIds(table)) =>
        ~last.err /\ last.list = <<>>

\* List was called on a table of several records with an offset past them
\* and swept the whole table
C9_Witness ==
    /\ ListReturned /\ ~last.err /\ last.list = <<>>
    /\ Cardinality(StoredIds(table)) > 1
    /\ last.offset >= Cardinality(StoredIds(table))
    /\ last.scanned = Cardinality(StoredIds(table))

\* C11 as stated: the stored status of a record changes only from pending to
\* approved or from pending to rejected; no Update changes the stored status
\* of a record that is approved or rejected.
C11_StatusOneWay ==
    [][IsCall("Update") /\ ~last'.err =>
        \/ table'[last'.id].status = table[last'.id].status
        \/ /\ table[last'.id].status = StatusPending
           /\ table'[last'.id].status \in {StatusApproved, StatusRejected}]_vars

\* C12 as stated: every stored record has updated_at >= created_at, whatever
\* records the callers of Save and Update supply.
C12_UpdatedAtNotBeforeCreatedAt ==
    \A i \in StoredIds(table) : table[i].updatedAt >= table[i].createdAt

\* C13: Save writes under a generated identifier exactly when the record is
\* passed with the empty identifier and under the identifier as given
\* otherwise; the record it stores carries the identifier it is stored under;
\* an Update neither adds nor removes a stored identifier, and the record it
\* writes stays under, and carries, the identifier it was stored under.
C13_IdentifierImmutable ==
    [][/\ IsCall("Save") =>
             /\ last'.argId # EmptyID => last'.id = last'.argId
             /\ last'.argId = EmptyID => last'.id = generateChargebackID(now)
             /\ last'.id # EmptyID
             /\ \A i \in StoredIds(table) : table'[i] = table[i]
       /\ IsCall("Update") =>
             /\ last'.id = last'.argId
             /\ StoredIds(table') = StoredIds(table)
             /\ \A i \in Ids \ {last'.id} : table'[i] = table[i]
       /\ \A i \in StoredIds(table') : table'[i].id = i]_vars

\* a Save stored a record under the identifier it was passed, which is not the
\* one the generator would have produced
C13_Witness ==
    /\ last.op = "Save" /\ ~last.err
    /\ last.argId # EmptyID /\ last.argId # generateChargebackID(now)
    /\ table[last.argId].id = last.argId

\* the identifiers of the records in a returned list
ListedIds(list) == {list[k].id : k \in 1..Len(list)}

\* C14 as stated: FindByMerchantID(m) and FindByStatus(s) return every stored
\* record whose merchant id is m, respectively whose status is s, whether or
\* not the store answers the Query in several pages (taken with the index up
\* to date with the table and the store call succeeding).
C14_QueryReturnsAllMatches ==
    /\ last.op = "FindByMerchantID" /\ ~last.storeErr /\ gsi = table
          => ListedIds(last.list) = MatchingIds(table, "merchant", last.key)
    /\ last.op = "FindByStatus" /\ ~last.storeErr /\ gsi = table
          => ListedIds(last.list) = MatchingIds(table, "status", last.key)

\* every record of a returned list, converted back, is the item that `t`
\* holds under the record's identifier
ListedAsHeld(list, t) ==
    \A k \in 1..Len(list) : entityToItem(list[k]) = t[list[k].id]

C16_CreatedIsPendingWithId ==
    [][\A p \in Procs :
          wf[p].pc = "save" /\ wf'[p].outcome = "created" =>
              /\ wf'[p].id # EmptyID
              /\ wf'[p].id = generateChargebackID(now)
              /\ wf'[p].http = StatusCreated
              /\ attributeExists(table', wf'[p].id)
              /\ table'[wf'[p].id].id = wf'[p].id
              /\ table'[wf'[p].id].status = StatusPending
              /\ FindByIDResult(table', wf'[p].id)
                    = [NewChargeback(wf[p].tx, now) EXCEPT !.id = wf'[p].id]]_vars

\* a workflow for a transaction id that no stored record carried has just
\* created its record
C16_Witness ==
    \E p \in Procs :
        /\ last.op = "Save" /\ ~last.err
        /\ wf[p].outcome = "created" /\ wf[p].id = last.id /\ ~wf[p].dup
        /\ StoredWithTx(table, wf[p].tx) = {wf[p].id}
        /\ table[wf[p].id].status = StatusPending

\* C17: every step of a creation workflow other than the Save that succeeds
\* leaves the table and its index as they were; so a workflow that fails, at
\* validation, at the duplicate check, at the construction of the record or
\* at Save, has added, changed and removed nothing.
C17_FailedWorkflowWritesNothing ==
    [][\A p \in Procs :
          wf'[p] # wf[p] /\ wf'[p].outcome # "created" =>
              table' = table /\ gsi' = gsi]_vars

\* a workflow has just failed at Save, on a failure of the store call, and
\* the table holds no record under the identifier it tried to write
C17_Witness ==
    \E p \in Procs :
        /\ last.op = "Save" /\ last.storeErr
        /\ wf[p].pc = "done" /\ wf[p].outcome = "internal" /\ wf[p].storeErr
        /\ ~attributeExists(table, last.id)

\* C18 as stated: a request with an empty transaction id and an invalid
\* reason is answered with one validation failure (400) whose message
\* reports both problems.
C18_ValidationReportsBoth ==
    \A p \in Procs :
        wf[p].pc = "done" /\ wf[p].tx = "" /\ ~wf[p].reasonOk =>
            /\ wf[p].http = StatusBadRequest
            /\ wf[p].problems = {"transaction_id", "reason"}

\* C19 as stated: a request that reaches the workflow is answered 201 when
\* the workflow succeeds, 400 when it fails validation, 409 when the
\* transaction already has a chargeback, 500 on any other persistence
\* failure.
C19_StatusByOutcome ==
    \A p \in Procs :
        wf[p].pc = "done" /\ wf[p].reasonOk =>
            /\ wf[p].outcome = "created" => wf[p].http = StatusCreated
            /\ wf[p].outcome = "validation" => wf[p].http = StatusBadRequest
            /\ wf[p].outcome = "conflict" => wf[p].http = StatusConflict
            /\ wf[p].outcome = "internal" => wf[p].http = StatusInternalServerError

\* C20 as stated: a creation during which a store call fails is answered 500
\* whatever the text of the store's error, and ends at that call: the
\* workflow makes no further store call.
C20_StoreFailureIs500 ==
    \A p \in Procs :
        wf[p].storeErr =>
            /\ wf[p].pc = "done"
            /\ wf[p].id = EmptyID
            /\ wf[p].http \in {StatusInternalServerError}

\* C21: a request that is valid but for its reason, and whose reason is one the
\* README documents, is not turned away for its reason: it is passed to the
\* creation workflow, whose success is answered with 201.
C21_ReadmeReasonsAccepted ==
    \A p \in Procs :
        /\ wf[p].pc = "done"
        /\ wf[p].req.reason \in ReadmeReasons
        /\ wf[p].req.method = "POST"
        /\ wf[p].req.contentType \in JsonContentTypes
        /\ wf[p].req.jsonOk
        /\ wf[p].req.date \in RFC3339Dates
        => /\ wf[p].outcome # "reason"
           /\ wf[p].outcome = "created" => wf[p].http = StatusCreated

\* C24: when main has reported the shutdown complete, the HTTP server has been
\* stopped: it accepts no request and handles none.
C24_ShutdownStopsServer ==
    srv.pc = "complete" =>
        /\ ~srv.listening
        /\ \A p \in Procs : wf[p].pc # "save"

\* C25: the handler answers a request with the status of the first check, in
\* the order method, content type, body, date, reason, that the request
\* fails, without calling the repository; the workflow runs, and the table is
\* written, only for a request that passes all five.
C25_ChecksInOrder ==
    [][\A p \in Procs :
          wf'[p] # wf[p] =>
             LET r == wf'[p].req
                 first == IF r.method # "POST" THEN "method"
                          ELSE IF r.contentType \notin JsonContentTypes
                          THEN "contentType"
                          ELSE IF ~r.jsonOk THEN "json"
                          ELSE IF r.date \notin RFC3339Dates THEN "date"
                          ELSE IF ToLower(r.reason) \notin ParserReasons
                          THEN "reason"
                          ELSE "none"
                 status == IF first = "method" THEN 405
                           ELSE IF first = "contentType" THEN 415 ELSE 400
             IN /\ first # "none" =>
                      /\ wf'[p].pc = "done" /\ wf'[p].outcome = first
                      /\ wf'[p].http = status
                      /\ last' = NoCall /\ table' = table
                /\ first = "none" =>
                      wf'[p].outcome \notin {"method", "contentType", "json",
                                             "date", "reason"}
                /\ (last'.op # "none" \/ table' # table) => first = "none"]_vars

\* a request that fails the content type check and the later ones is answered
\* 415
C25_Witness ==
    /\ wf["w1"].pc = "done" /\ wf["w1"].outcome = "contentType"
    /\ wf["w1"].req.method = "POST" /\ ~wf["w1"].req.jsonOk
    /\ wf["w1"].http = StatusUnsupportedMediaType

\* fmt.Sprintf("cb_%d", n): the text of the identifier of number n, as the
\* sequence of the codes of its characters
RECURSIVE decimal(_)
decimal(n) == IF n < 10 THEN <<48 + n>> ELSE decimal(n \div 10) \o <<48 + (n % 10)>>

idText(n) == <<99, 98, 95>> \o decimal(n)

\* the order of Go strings: by the first character that differs, a proper
\* prefix first
RECURSIVE lexLess(_, _)
lexLess(a, b) ==
    IF b = <<>> THEN FALSE
    ELSE IF a = <<>> THEN TRUE
    ELSE IF Head(a) # Head(b) THEN Head(a) < Head(b)
    ELSE lexLess(Tail(a), Tail(b))

\* C22: of two Saves of records with empty identifiers, one directly after the
\* other, the second generates an identifier that starts with "cb_", differs
\* from the first one's and sorts after it.
C22_GeneratedIdsDistinctAndOrdered ==
    [][/\ last.op = "Save" /\ last.argId = EmptyID
       /\ IsCall("Save") /\ last'.argId = EmptyID
       => /\ SubSeq(idText(last'.id), 1, 3) = <<99, 98, 95>>
          /\ last'.id # last.id
          /\ lexLess(idText(last.id), idText(last'.id))]_vars

\* C23: a call whose store call failed returned an error that wraps the
\* store's error under a text no other operation uses, with no record and no
\* list: not even the part of a list gathered before the failure.
C23_StoreFailureIsWrappedError ==
    last.storeErr =>
        /\ last.err
        /\ last.msg.cause
        /\ last.msg.text # ""
        /\ \A op \in Operations \ {last.op} : errorText(op) # last.msg.text
        /\ last.res = NoItem
        /\ last.list = <<>>

\* a List whose second Scan failed, after the first had brought an item
C23_Witness ==
    /\ last.op = "List" /\ last.storeErr /\ last.err
    /\ last.scanned > 0

\* the read operations
Reads == {"FindByID", "FindByTransactionID", "FindByMerchantID", "FindByStatus",
          "List"}

\* C28: a step changes the set of stored identifiers only as a Save that
\* succeeds, adding its one identifier, or as a Delete that succeeds, removing
\* its one identifier; a call that fails leaves the set as it was, and a read
\* leaves the whole table as it was.
C28_IdsChangeOnlyBySaveAndDelete ==
    [][/\ StoredIds(table') # StoredIds(table) =>
            \/ /\ IsCall("Save") /\ ~last'.err
               /\ last'.id \notin StoredIds(table)
               /\ StoredIds(table') = StoredIds(table) \cup {last'.id}
            \/ /\ IsCall("Delete") /\ ~last'.err
               /\ last'.id \in StoredIds(table)
               /\ StoredIds(table') = StoredIds(table) \ {last'.id}
       /\ IsCall("Save") /\ ~last'.err =>
            Cardinality(StoredIds(table')) = Cardinality(StoredIds(table)) + 1
       /\ IsCall("Delete") /\ ~last'.err =>
            Cardinality(StoredIds(table')) = Cardinality(StoredIds(table)) - 1
       /\ last'.op \in Operations /\ last'.err => StoredIds(table') = StoredIds(table)
       /\ last'.op \in Reads \cup {"Update"} => StoredIds(table') = StoredIds(table)
       /\ last'.op \in Reads => table' = table]_vars

\* an Update has succeeded on the one stored record and changed it, and the
\* stored identifiers are as before
C28_Witness ==
    /\ last.op = "Update" /\ ~last.err
    /\ StoredIds(table) = {last.id}
    /\ table[last.id].status = StatusApproved

\* C29: a List that is entered returns. Between two Scans of its loop the
\* store has reported more to come and fewer than offset+limit items are
\* accumulated; when it returns from the loop without error, the slice it
\* takes lies within the accumulated items and has at most limit items.
C29_ListTerminatesInRange ==
    /\ [](sweep.pc = "loop" =>
            /\ Len(sweep.scanned) < sweep.offset + sweep.limit
            /\ sweep.lastKey = NoKey => sweep.scanned = <<>>)
    /\ [](last.op = "List" /\ ~last.err /\ last.offset > 0 =>
            LET endIndex == Min(last.offset + last.limit, last.scanned)
            IN /\ Len(last.list) <= last.limit
               /\ last.offset < last.scanned =>
                     /\ last.offset <= endIndex /\ endIndex <= last.scanned
                     /\ Len(last.list) = endIndex - last.offset)
    /\ (sweep.pc # "idle" ~> sweep.pc = "idle")

\* a List with an offset has returned after more than one Scan, with as many
\* records as its limit
C29_Witness ==
    /\ last.op = "List" /\ ~last.err /\ last.offset > 0
    /\ last.limit > 1 /\ Len(last.list) = last.limit
    /\ last.scanned > MaxPage

\* C26: the store call of a Save leaves every stored record as it is, and
\* when it succeeds it has put the caller's record under an identifier that
\* held none. Of two callers whose Saves were answered by the store, both
\* succeeded when their identifiers differ, and exactly one succeeded when
\* their identifiers are the same.
C26_ConcurrentSavesNeverOverwrite ==
    /\ [][\A k \in Clients :
            client[k].pc = "saving" /\ client'[k].pc = "idle" =>
                /\ \A i \in StoredIds(table) : table'[i] = table[i]
                /\ ~last'.err =>
                      /\ ~attributeExists(table, client[k].rec.id)
                      /\ table'[client[k].rec.id] = entityToItem(client[k].rec)]_vars
    /\ [](LET a == client["a"]
               b == client["b"]
           IN a.saved \in {"ok", "exists"} /\ b.saved \in {"ok", "exists"} =>
                 IF a.rec.id = b.rec.id
                 THEN (a.saved = "ok") # (b.saved = "ok")
                 ELSE a.saved = "ok" /\ b.saved = "ok")

\* the two callers generated the same identifier; the Save of "a" stored its
\* record, the Save of "b" was rejected
C26_Witness ==
    /\ client["a"].saved = "ok" /\ client["b"].saved = "exists"
    /\ client["a"].rec.id = client["b"].rec.id
    /\ table[client["a"].rec.id].tx = TxOf("a")

\* C27: an Update that reaches the store fails exactly when no record is
\* stored under its identifier, whatever the stored record holds; when it
\* succeeds the stored record is the caller's, replacing what another caller
\* wrote since this one read.
C27_UpdateGuardsOnExistenceOnly ==
    [][\A k \in Clients :
          client[k].pc = "updating" /\ client'[k].pc = "idle" =>
              /\ ~last'.storeErr =>
                    (last'.err <=> ~attributeExists(table, client[k].rec.id))
              /\ ~last'.err =>
                    table'[client[k].rec.id] = entityToItem(client[k].rec)]_vars

\* both callers read the pending record, "a" approved it, "b" rejected it,
\* both Updates succeeded, and the table holds the rejection
C27_Witness ==
    /\ client["a"].updated /\ client["b"].updated
    /\ client["a"].rec.id = client["b"].rec.id
    /\ client["a"].rec.status = StatusApproved
    /\ client["b"].rec.status = StatusRejected
    /\ table[client["a"].rec.id].status = StatusRejected
    /\ last.op = "Update" /\ ~last.err

\* C30: Save puts the identifier in the caller's record, the generated one
\* when the record has none and else the record's own, and Update puts the
\* current time in its UpdatedAt, before the store is called; when the store
\* call then fails, the record stays as changed and the table as it was.
C30_CallerRecordKeepsChange ==
    [][\A k \in Clients :
          /\ client[k].pc = "idle" /\ client'[k].pc = "saving" =>
                /\ client'[k].rec.id # EmptyID
                /\ client'[k].rec.id = IF client[k].rec.id = EmptyID
                                       THEN generateChargebackID(now)
                                       ELSE client[k].rec.id
          /\ client[k].pc = "saving" /\ client'[k].pc = "idle" /\ last'.err =>
                /\ client'[k].rec = client[k].rec
                /\ client'[k].rec.id # EmptyID
                /\ table' = table
          /\ client[k].pc = "idle" /\ client'[k].pc = "updating" =>
                client'[k].rec.updatedAt = now
          /\ client[k].pc = "updating" /\ client'[k].pc = "idle" /\ last'.err =>
                /\ client'[k].rec = client[k].rec
                /\ table' = table]_vars

\* the Save of a record without identifier failed in the store at an earlier
\* time: the record holds the identifier generated then, the table has no
\* record under it
C30_Witness ==
    /\ client["a"].pc = "idle" /\ client["a"].saved = "failed"
    /\ client["a"].rec.id # EmptyID /\ client["a"].rec.id < now
    /\ ~attributeExists(table, client["a"].rec.id)

====
